---- MODULE Spec2Model ----
(***************************************************************************)
(* Model of package syncs (src/syncs/syncs.go): Semaphore, WaitGroupChan,  *)
(* Map and AtomicValue, each run by a set of goroutines whose steps        *)
(* interleave at the granularity of the channel, atomic and lock           *)
(* operations of the source.                                               *)
(***************************************************************************)
EXTENDS Integers, FiniteSets, Sequences, TLC

\* Bounds of the model.
NumThreads == 3
MaxCap == 2
NumCtx == 1
MaxDelta == 2
MaxCount == 2
NumKeys == 2
NumMapThreads == 2
NumAvThreads == 2
MaxVal == 1

Threads == 1..NumThreads
\* The goroutines that use the Map.
MapThreads == 1..NumMapThreads
\* The goroutines that use the AtomicValue.
AvThreads == 1..NumAvThreads
\* Context 0 is context.Background(): its Done channel is never ready.
CancelCtxs == 1..NumCtx
Ctxs == 0..NumCtx
Keys == 1..NumKeys
\* The values of V; 0 is V's zero value.
Values == 0..MaxVal

VARIABLES
    \* Semaphore
    semCap,     \* cap(s.c): the n given to NewSemaphore
    semLen,     \* len(s.c): tokens in the channel buffer
    sop,        \* per goroutine: the Semaphore method it is in, or "none"
    spc,        \* per goroutine: "idle", "call" (about to run the channel
                \* statement), "parked" (blocked on the channel), "ret"
    sctx,       \* per goroutine: the ctx given to AcquireContext
    sres,       \* per goroutine: the result the method returns
    ctxDone,    \* per cancellable context: whether ctx.Done() is closed
    \* WaitGroupChan
    wgN,        \* wg.n
    wgClosed,   \* whether wg.done is closed
    wgPanic,    \* the panic that ended the program, or "none"
    wop,        \* per goroutine: the WaitGroupChan method it is in, or "none"
    wpc,        \* per goroutine: "idle", "add" (before the atomic add),
                \* "check" (before if n == 0), "call", "parked", "ret" (Wait)
    wdelta,     \* per goroutine: the delta given to Add, until it is added
    wn,         \* per goroutine: Add's local n
    wch,        \* the channel a caller got from DoneChan, or "nil"
    wgZero,     \* history: some atomic add of Add has returned zero
    wgLeft,     \* caller's plan: Decr calls still to make (-1: none planned)
    \* Map
    m,          \* m.m: the entries, a function from the keys present
    mNil,       \* whether m.m is nil (not allocated yet)
    rwReaders,  \* m.mu: the number of read locks held
    rwWriter,   \* m.mu: the goroutine that holds or is taking the write
                \* lock (from then on no new read lock is given), or 0
    mop,        \* per goroutine: the Map method it is in, or "none"
    mpc,        \* per goroutine: "idle", "rlock", "read", "runlock", "lock",
                \* "lockwait", "cs" (holds the write lock), "unlock"; in
                \* Range "rrlock", "range" (at the for statement), "f" (in
                \* the callback), "rrunlock"
    mkey,       \* per goroutine: the key argument (0: none)
    mval,       \* per goroutine: the value argument
    mactual,    \* per goroutine: the value result (value, actual)
    mloaded,    \* per goroutine: the bool result (ok, loaded)
    mDone,      \* history: the entries when the write lock was last released
    onlyLOS,    \* history, per key: only Load and LoadOrStore were called on it
    losFalse,   \* history, per key: LoadOrStore calls that returned
                \* loaded == false while onlyLOS (counted up to 2)
    mvisited,   \* per goroutine in Range: the entries passed to f so far
    mstop,      \* per goroutine in Range: the last f returned false
    mcb,        \* per goroutine: it is in a method that the f of its Range
                \* called (mop, mpc, mkey, mval are then that method's)
    msnap,      \* history, per goroutine in Range: the entries when Range
                \* got the read lock
    \* AtomicValue
    avSet,      \* whether v.v holds a value (v.v.Load() != nil)
    avVal,      \* the T held by v.v (0 while it holds none)
    aop,        \* per goroutine: the AtomicValue method it is in, or "none"
    apc,        \* per goroutine: "idle", "call" (before the atomic
                \* operation on v.v), "ret"
    aold,       \* per goroutine: CompareAndSwap's oldV
    anew,       \* per goroutine: the x of Store and Swap, CompareAndSwap's newV
    aret,       \* per goroutine: the T the method returns
    aok,        \* per goroutine: the bool the method returns (ok, swapped)
    avLast,     \* history: the x of the latest Store, Swap or CompareAndSwap
                \* that returned true (-1: there was none)
    avTaken,    \* history: a Swap has returned the value now held as its old
    casOld,     \* history: the old of the CompareAndSwap calls made since the
                \* last Store or Swap, if the first of them found Load() equal
                \* to old and all had that old and a newV other than it
                \* (-1: no CompareAndSwap since; -2: some call was otherwise)
    casWins     \* history: of those calls, the ones that returned true
                \* (counted up to 2)

semVars == <<semCap, semLen, sop, spc, sctx, sres, ctxDone>>
wgVars == <<wgN, wgClosed, wgPanic, wop, wpc, wdelta, wn, wch, wgZero, wgLeft>>

rangeVars == <<mvisited, mstop, mcb, msnap>>

mapVars == <<m, mNil, rwReaders, rwWriter, mop, mpc, mkey, mval, mactual, mloaded,
             mDone, onlyLOS, losFalse, rangeVars>>

avVars == <<avSet, avVal, aop, apc, aold, anew, aret, aok,
            avLast, avTaken, casOld, casWins>>

vars == <<semVars, wgVars, mapVars, avVars>>

----------------------------------------------------------------------------
(* Semaphore *)

\* NewSemaphore(n): a channel of capacity n, empty.
NewSemaphore(n) ==
    /\ semCap = n
    /\ semLen = 0
    /\ sop = [t \in Threads |-> "none"]
    /\ spc = [t \in Threads |-> "idle"]
    /\ sctx = [t \in Threads |-> 0]
    /\ sres = [t \in Threads |-> "none"]
    /\ ctxDone = [c \in CancelCtxs |-> FALSE]

\* Goroutines blocked in a send on s.c (Acquire, AcquireContext).
SendQ == {t \in Threads : spc[t] = "parked" /\ sop[t] \in {"Acquire", "AcquireContext"}}

\* Goroutines blocked in the receive on s.c (Release).
RecvQ == {t \in Threads : spc[t] = "parked" /\ sop[t] = "Release"}

\* The buffer of s.c has room.
HasRoomOffByOne == semLen <= semCap
HasRoom == semLen < semCap

\* A send on s.c can proceed: a receiver is waiting or the buffer has room.
SendReady == RecvQ # {} \/ HasRoom

\* <-ctx.Done() can proceed.
DoneNeverReady(t) == FALSE
DoneAlwaysReady(t) == TRUE
DoneReady(t) == sctx[t] # 0 /\ ctxDone[sctx[t]]

\* A send that always goes to the buffer and leaves a waiting receiver waiting.
ChanSendBufferOnly(t, res) ==
    /\ sres' = [sres EXCEPT ![t] = res]
    /\ spc' = [spc EXCEPT ![t] = "ret"]
    /\ semLen' = semLen + 1

\* s.c <- struct{}{} by t when it can proceed; the method then returns res.
\* A waiting receiver takes the token directly, else it goes to the buffer.
ChanSend(t, res) ==
    /\ sres' = [sres EXCEPT ![t] = res]
    /\ IF RecvQ # {}
       THEN \E r \in RecvQ :
                /\ spc' = [spc EXCEPT ![t] = "ret", ![r] = "ret"]
                /\ semLen' = semLen
       ELSE /\ spc' = [spc EXCEPT ![t] = "ret"]
            /\ semLen' = semLen + 1

\* What a parked sender's method returns once its send has completed.
SentResult(s) == IF sop[s] = "AcquireContext" THEN "true" ELSE "none"

\* The callers: a goroutine enters one of the four methods.
CallAcquire(t) ==
    /\ spc[t] = "idle"
    /\ sop' = [sop EXCEPT ![t] = "Acquire"]
    /\ spc' = [spc EXCEPT ![t] = "call"]
    /\ UNCHANGED <<semCap, semLen, sctx, sres, ctxDone, wgVars, mapVars, avVars>>

CallAcquireContext(t, c) ==
    /\ spc[t] = "idle"
    /\ sop' = [sop EXCEPT ![t] = "AcquireContext"]
    /\ spc' = [spc EXCEPT ![t] = "call"]
    /\ sctx' = [sctx EXCEPT ![t] = c]
    /\ UNCHANGED <<semCap, semLen, sres, ctxDone, wgVars, mapVars, avVars>>

CallTryAcquire(t) ==
    /\ spc[t] = "idle"
    /\ sop' = [sop EXCEPT ![t] = "TryAcquire"]
    /\ spc' = [spc EXCEPT ![t] = "call"]
    /\ UNCHANGED <<semCap, semLen, sctx, sres, ctxDone, wgVars, mapVars, avVars>>

CallRelease(t) ==
    /\ spc[t] = "idle"
    /\ sop' = [sop EXCEPT ![t] = "Release"]
    /\ spc' = [spc EXCEPT ![t] = "call"]
    /\ UNCHANGED <<semCap, semLen, sctx, sres, ctxDone, wgVars, mapVars, avVars>>

\* Acquire: s.c <- struct{}{}
Acquire(t) ==
    /\ sop[t] = "Acquire" /\ spc[t] = "call"
    /\ IF SendReady
       THEN ChanSend(t, "none")
       ELSE /\ spc' = [spc EXCEPT ![t] = "parked"]
            /\ UNCHANGED <<semLen, sres>>
    /\ UNCHANGED <<semCap, sop, sctx, ctxDone, wgVars, mapVars, avVars>>

\* AcquireContext: select { case s.c <- struct{}{}: true; case <-ctx.Done(): false }
\* With both cases ready the select takes either.
AcquireContext(t) ==
    /\ sop[t] = "AcquireContext" /\ spc[t] = "call"
    /\ \/ /\ SendReady
          /\ ChanSend(t, "true")
       \/ /\ DoneReady(t)
          /\ spc' = [spc EXCEPT ![t] = "ret"]
          /\ sres' = [sres EXCEPT ![t] = "false"]
          /\ UNCHANGED semLen
       \/ /\ ~SendReady /\ ~DoneReady(t)
          /\ spc' = [spc EXCEPT ![t] = "parked"]
          /\ UNCHANGED <<semLen, sres>>
    /\ UNCHANGED <<semCap, sop, sctx, ctxDone, wgVars, mapVars, avVars>>

\* A TryAcquire whose select has no default case.
TryAcquireNoDefault(t) ==
    /\ sop[t] = "TryAcquire" /\ spc[t] = "call"
    /\ IF SendReady
       THEN ChanSend(t, "true")
       ELSE /\ spc' = [spc EXCEPT ![t] = "parked"]
            /\ UNCHANGED <<semLen, sres>>
    /\ UNCHANGED <<semCap, sop, sctx, ctxDone, wgVars, mapVars, avVars>>

\* TryAcquire: select { case s.c <- struct{}{}: true; default: false }
TryAcquire(t) ==
    /\ sop[t] = "TryAcquire" /\ spc[t] = "call"
    /\ IF SendReady
       THEN ChanSend(t, "true")
       ELSE /\ spc' = [spc EXCEPT ![t] = "ret"]
            /\ sres' = [sres EXCEPT ![t] = "false"]
            /\ UNCHANGED semLen
    /\ UNCHANGED <<semCap, sop, sctx, ctxDone, wgVars, mapVars, avVars>>

\* A Release that takes a token and leaves the waiting senders waiting.
ReleaseNoWake(t) ==
    /\ sop[t] = "Release" /\ spc[t] = "call"
    /\ IF semLen > 0
       THEN /\ spc' = [spc EXCEPT ![t] = "ret"]
            /\ semLen' = semLen - 1
       ELSE /\ spc' = [spc EXCEPT ![t] = "parked"]
            /\ UNCHANGED semLen
    /\ UNCHANGED <<semCap, sop, sctx, sres, ctxDone, wgVars, mapVars, avVars>>

\* Release: <-s.c. A waiting sender's token replaces the one taken, and that
\* sender's send completes; else a token leaves the buffer; else Release waits.
Release(t) ==
    /\ sop[t] = "Release" /\ spc[t] = "call"
    /\ IF SendQ # {}
       THEN \E s \in SendQ :
                /\ spc' = [spc EXCEPT ![t] = "ret", ![s] = "ret"]
                /\ sres' = [sres EXCEPT ![s] = SentResult(s)]
                /\ semLen' = semLen
       ELSE IF semLen > 0
       THEN /\ spc' = [spc EXCEPT ![t] = "ret"]
            /\ semLen' = semLen - 1
            /\ UNCHANGED sres
       ELSE /\ spc' = [spc EXCEPT ![t] = "parked"]
            /\ UNCHANGED <<semLen, sres>>
    /\ UNCHANGED <<semCap, sop, sctx, ctxDone, wgVars, mapVars, avVars>>

\* The caller's cancel(): ctx.Done() is closed, which resolves every select
\* parked on it to its ctx.Done() case.
Cancel(c) ==
    /\ ~ctxDone[c]
    /\ ctxDone' = [ctxDone EXCEPT ![c] = TRUE]
    /\ LET woken == {t \in SendQ : sop[t] = "AcquireContext" /\ sctx[t] = c}
       IN  /\ spc' = [t \in Threads |-> IF t \in woken THEN "ret" ELSE spc[t]]
           /\ sres' = [t \in Threads |-> IF t \in woken THEN "false" ELSE sres[t]]
    /\ UNCHANGED <<semCap, semLen, sop, sctx, wgVars, mapVars, avVars>>

\* The method returns to its caller.
SemReturn(t) ==
    /\ spc[t] = "ret"
    /\ spc' = [spc EXCEPT ![t] = "idle"]
    /\ sop' = [sop EXCEPT ![t] = "none"]
    /\ sctx' = [sctx EXCEPT ![t] = 0]
    /\ sres' = [sres EXCEPT ![t] = "none"]
    /\ UNCHANGED <<semCap, semLen, ctxDone, wgVars, mapVars, avVars>>

\* The steps a goroutine takes by itself once inside a method.
SemStep(t) ==
    \/ Acquire(t)
    \/ AcquireContext(t)
    \/ TryAcquire(t)
    \/ Release(t)
    \/ SemReturn(t)

SemCall(t) ==
    \/ CallAcquire(t)
    \/ \E c \in Ctxs : CallAcquireContext(t, c)
    \/ CallTryAcquire(t)
    \/ CallRelease(t)

SemNext ==
    \/ \E t \in Threads : SemCall(t)
    \/ \E t \in Threads : SemStep(t)
    \/ \E c \in CancelCtxs : Cancel(c)

----------------------------------------------------------------------------
(* WaitGroupChan *)

\* NewWaitGroupChan(): counter zero, done open.
NewWaitGroupChan ==
    /\ wgN = 0
    /\ wgClosed = FALSE
    /\ wgPanic = "none"
    /\ wop = [t \in Threads |-> "none"]
    /\ wpc = [t \in Threads |-> "idle"]
    /\ wdelta = [t \in Threads |-> 0]
    /\ wn = [t \in Threads |-> 0]
    /\ wch = "nil"
    /\ wgZero = FALSE
    /\ wgLeft = -1

\* ClosedChan(): the package's channel that is closed from the start.
ClosedChan == "closedChan"

\* DoneChan(): return wg.done
DoneChan == "wg.done"

\* Whether a receive on channel ch is ready.
ChanReady(ch) == IF ch = ClosedChan THEN TRUE ELSE ch = "wg.done" /\ wgClosed

\* Add's test of the atomic add's result: if n == 0
IsZeroOrLess(n) == n <= 0
IsZeroOrOne(n) == n \in {0, 1}
IsZero(n) == n = 0

\* The deltas of the Add calls that have not done their atomic add yet.
PendingUp == {t \in Threads : wpc[t] = "add" /\ wdelta[t] > 0}
PendingDown == {t \in Threads : wpc[t] = "add" /\ wdelta[t] < 0}

RECURSIVE SumDelta(_)
SumDelta(S) ==
    IF S = {} THEN 0
    ELSE LET t == CHOOSE x \in S : TRUE IN wdelta[t] + SumDelta(S \ {t})

\* The callers keep the counter within the model's range.
InRange(d) ==
    /\ wgN + SumDelta(PendingUp) + (IF d > 0 THEN d ELSE 0) <= MaxCount
    /\ wgN + SumDelta(PendingDown) + (IF d < 0 THEN d ELSE 0) >= -MaxCount

\* A goroutine enters Add(d).
EnterAdd(t, d) ==
    /\ wgPanic = "none" /\ wpc[t] = "idle"
    /\ InRange(d)
    /\ wop' = [wop EXCEPT ![t] = "Add"]
    /\ wpc' = [wpc EXCEPT ![t] = "add"]
    /\ wdelta' = [wdelta EXCEPT ![t] = d]
    /\ UNCHANGED <<wgN, wgClosed, wgPanic, wn, wch, wgZero, semVars, mapVars, avVars>>

\* Decr(): wg.Add(-1)
EnterDecr(t) == EnterAdd(t, -1)

\* Any caller: Add(d) and Decr() at any time.
CallAdd(t, d) == EnterAdd(t, d) /\ UNCHANGED wgLeft

CallDecr(t) == EnterDecr(t) /\ UNCHANGED wgLeft

\* A goroutine calls Wait().
CallWait(t) ==
    /\ wgPanic = "none" /\ wpc[t] = "idle"
    /\ wop' = [wop EXCEPT ![t] = "Wait"]
    /\ wpc' = [wpc EXCEPT ![t] = "call"]
    /\ UNCHANGED <<wgN, wgClosed, wgPanic, wdelta, wn, wch, wgZero, wgLeft, semVars, mapVars, avVars>>

\* A goroutine calls DoneChan() and keeps the channel.
CallDoneChan(t) ==
    /\ wgPanic = "none" /\ wpc[t] = "idle"
    /\ wch = "nil"
    /\ wch' = DoneChan
    /\ UNCHANGED <<wgN, wgClosed, wgPanic, wop, wpc, wdelta, wn, wgZero, wgLeft, semVars, mapVars, avVars>>

\* Add: n := atomic.AddInt64(&wg.n, int64(delta))
AddAtomic(t) ==
    /\ wgPanic = "none" /\ wpc[t] = "add"
    /\ wgN' = wgN + wdelta[t]
    /\ wn' = [wn EXCEPT ![t] = wgN + wdelta[t]]
    /\ wgZero' = (wgZero \/ wgN + wdelta[t] = 0)
    /\ wpc' = [wpc EXCEPT ![t] = "check"]
    /\ wdelta' = [wdelta EXCEPT ![t] = 0]
    /\ UNCHANGED <<wgClosed, wgPanic, wop, wch, wgLeft, semVars, mapVars, avVars>>

\* Add: if n == 0 { close(wg.done) }, and return. Closing a closed channel
\* panics; closing an open one readies every goroutine blocked in Wait.
AddCheck(t) ==
    /\ wgPanic = "none" /\ wpc[t] = "check"
    /\ IF IsZero(wn[t])
       THEN IF wgClosed
            THEN /\ wgPanic' = "close of closed channel"
                 /\ UNCHANGED <<wgClosed, wop, wpc, wdelta, wn>>
            ELSE /\ wgClosed' = TRUE
                 /\ wpc' = [u \in Threads |->
                               IF u = t THEN "idle"
                               ELSE IF wop[u] = "Wait" /\ wpc[u] = "parked" THEN "ret"
                               ELSE wpc[u]]
                 /\ wop' = [wop EXCEPT ![t] = "none"]
                 /\ wn' = [wn EXCEPT ![t] = 0]
                 /\ UNCHANGED <<wgPanic, wdelta>>
       ELSE /\ wpc' = [wpc EXCEPT ![t] = "idle"]
            /\ wop' = [wop EXCEPT ![t] = "none"]
            /\ wn' = [wn EXCEPT ![t] = 0]
            /\ UNCHANGED <<wgClosed, wgPanic, wdelta>>
    /\ UNCHANGED <<wgN, wch, wgZero, wgLeft, semVars, mapVars, avVars>>

\* Wait: <-wg.done
Wait(t) ==
    /\ wgPanic = "none" /\ wop[t] = "Wait" /\ wpc[t] = "call"
    /\ wpc' = [wpc EXCEPT ![t] = IF ChanReady("wg.done") THEN "ret" ELSE "parked"]
    /\ UNCHANGED <<wgN, wgClosed, wgPanic, wop, wdelta, wn, wch, wgZero, wgLeft, semVars, mapVars, avVars>>

\* Wait returns to its caller.
WaitReturn(t) ==
    /\ wgPanic = "none" /\ wop[t] = "Wait" /\ wpc[t] = "ret"
    /\ wpc' = [wpc EXCEPT ![t] = "idle"]
    /\ wop' = [wop EXCEPT ![t] = "none"]
    /\ UNCHANGED <<wgN, wgClosed, wgPanic, wdelta, wn, wch, wgZero, wgLeft, semVars, mapVars, avVars>>

\* The steps a goroutine takes by itself once inside a method.
WgStep(t) ==
    \/ AddAtomic(t)
    \/ AddCheck(t)
    \/ Wait(t)
    \/ WaitReturn(t)

\* Any caller: Add with any delta, Decr, Wait and DoneChan at any time.
WgCall(t) ==
    \/ \E d \in (-MaxDelta)..MaxDelta : CallAdd(t, d)
    \/ CallDecr(t)
    \/ CallWait(t)
    \/ CallDoneChan(t)

WgNext ==
    \/ \E t \in Threads : WgCall(t)
    \/ \E t \in Threads : WgStep(t)

\* The caller of the documented use: one Add(k), k > 0, on the new value, and
\* once it has returned, k calls of Decr by any goroutines.
UseAdd(t, k) ==
    /\ wgLeft = -1
    /\ EnterAdd(t, k)
    /\ wgLeft' = k

UseDecr(t) ==
    /\ wgLeft > 0
    /\ \A u \in Threads : wop[u] # "Add"
    /\ EnterDecr(t)
    /\ wgLeft' = wgLeft - 1

WgUse(t) ==
    \/ \E k \in 1..MaxDelta : UseAdd(t, k)
    \/ UseDecr(t)
    \/ CallWait(t)
    \/ CallDoneChan(t)

WgUseNext ==
    \/ \E t \in Threads : WgUse(t)
    \/ \E t \in Threads : WgStep(t)

----------------------------------------------------------------------------
(* Map *)

\* No entries.
NoEntries == [k \in {} |-> 0]

\* The zero Map: m.m nil, m.mu unlocked.
ZeroMap ==
    /\ m = NoEntries
    /\ mNil = TRUE
    /\ rwReaders = 0
    /\ rwWriter = 0
    /\ mop = [t \in MapThreads |-> "none"]
    /\ mpc = [t \in MapThreads |-> "idle"]
    /\ mkey = [t \in MapThreads |-> 0]
    /\ mval = [t \in MapThreads |-> 0]
    /\ mactual = [t \in MapThreads |-> 0]
    /\ mloaded = [t \in MapThreads |-> FALSE]
    /\ mDone = NoEntries
    /\ onlyLOS = [k \in Keys |-> TRUE]
    /\ losFalse = [k \in Keys |-> 0]
    /\ mvisited = [t \in MapThreads |-> NoEntries]
    /\ mstop = [t \in MapThreads |-> FALSE]
    /\ mcb = [t \in MapThreads |-> FALSE]
    /\ msnap = [t \in MapThreads |-> NoEntries]

\* value, ok = mp[k]: the zero value and false when k is absent.
Lookup(mp, k) ==
    IF k \in DOMAIN mp
    THEN [value |-> mp[k], ok |-> TRUE]
    ELSE [value |-> 0, ok |-> FALSE]

\* mak.Set(&m.m, k, v): mp[k] = v (on a map allocated if it was nil).
Put(mp, k, v) == [x \in DOMAIN mp \cup {k} |-> IF x = k THEN v ELSE mp[x]]

\* delete(mp, k)
Remove(mp, k) == [x \in DOMAIN mp \ {k} |-> mp[x]]

\* m.mu.RLock() is given: no writer holds or is taking the lock.
CanRLockAlways == TRUE
CanRLock == rwWriter = 0

\* The callers: a goroutine enters one of the methods.
EnterMap(t, op, k, v, pc) ==
    /\ mpc[t] = "idle"
    /\ mop' = [mop EXCEPT ![t] = op]
    /\ mpc' = [mpc EXCEPT ![t] = pc]
    /\ mkey' = [mkey EXCEPT ![t] = k]
    /\ mval' = [mval EXCEPT ![t] = v]
    /\ onlyLOS' = [onlyLOS EXCEPT ![k] = @ /\ op \in {"Load", "LoadOrStore"}]
    /\ losFalse' = [losFalse EXCEPT ![k] = IF onlyLOS'[k] THEN @ ELSE 0]
    /\ UNCHANGED <<m, mNil, rwReaders, rwWriter, mactual, mloaded, mDone, rangeVars, semVars, wgVars, avVars>>

CallLoad(t, k) == EnterMap(t, "Load", k, 0, "rlock")

CallStore(t, k, v) == EnterMap(t, "Store", k, v, "lock")

\* LoadOrStore begins with m.Load(key).
CallLoadOrStore(t, k, v) == EnterMap(t, "LoadOrStore", k, v, "rlock")

CallLoadAndDelete(t, k) == EnterMap(t, "LoadAndDelete", k, 0, "lock")

CallDelete(t, k) == EnterMap(t, "Delete", k, 0, "lock")

\* Load: m.mu.RLock()
RLock(t) ==
    /\ mpc[t] = "rlock"
    /\ CanRLock
    /\ rwReaders' = rwReaders + 1
    /\ mpc' = [mpc EXCEPT ![t] = "read"]
    /\ UNCHANGED <<m, mNil, rwWriter, mop, mkey, mval, mactual, mloaded,
                   mDone, onlyLOS, losFalse, rangeVars, semVars, wgVars, avVars>>

\* Load: value, ok = m.m[key]
LoadRead(t) ==
    /\ mpc[t] = "read"
    /\ mactual' = [mactual EXCEPT ![t] = Lookup(m, mkey[t]).value]
    /\ mloaded' = [mloaded EXCEPT ![t] = Lookup(m, mkey[t]).ok]
    /\ mpc' = [mpc EXCEPT ![t] = "runlock"]
    /\ UNCHANGED <<m, mNil, rwReaders, rwWriter, mop, mkey, mval,
                   mDone, onlyLOS, losFalse, rangeVars, semVars, wgVars, avVars>>

\* The method returns to its caller: to the callback f of the Range that the
\* goroutine is in when f made the call, else to a caller outside the Map.
MapReturn(t) ==
    /\ mpc' = [mpc EXCEPT ![t] = IF mcb[t] THEN "f" ELSE "idle"]
    /\ mop' = [mop EXCEPT ![t] = IF mcb[t] THEN "Range" ELSE "none"]
    /\ mcb' = [mcb EXCEPT ![t] = FALSE]
    /\ IF mcb[t]
       THEN UNCHANGED <<mvisited, mstop, msnap>>
       ELSE /\ mvisited' = [mvisited EXCEPT ![t] = NoEntries]
            /\ mstop' = [mstop EXCEPT ![t] = FALSE]
            /\ msnap' = [msnap EXCEPT ![t] = NoEntries]
    /\ mkey' = [mkey EXCEPT ![t] = 0]
    /\ mval' = [mval EXCEPT ![t] = 0]
    /\ mactual' = [mactual EXCEPT ![t] = 0]
    /\ mloaded' = [mloaded EXCEPT ![t] = FALSE]
    /\ losFalse' =
           IF mop[t] = "LoadOrStore" /\ ~mloaded[t] /\ onlyLOS[mkey[t]] /\ losFalse[mkey[t]] < 2
           THEN [losFalse EXCEPT ![mkey[t]] = @ + 1]
           ELSE losFalse

\* Load: the deferred m.mu.RUnlock() and return value, ok. In LoadOrStore
\* the result goes to: if actual, loaded = m.Load(key); loaded { return },
\* else on to m.mu.Lock().
LoadReturn(t) ==
    /\ mpc[t] = "runlock"
    /\ rwReaders' = rwReaders - 1
    /\ IF mop[t] = "LoadOrStore" /\ ~mloaded[t]
       THEN /\ mpc' = [mpc EXCEPT ![t] = "lock"]
            /\ UNCHANGED <<mop, mkey, mval, mactual, mloaded, losFalse>>
            /\ UNCHANGED rangeVars
       ELSE MapReturn(t)
    /\ UNCHANGED <<m, mNil, rwWriter, mDone, onlyLOS, semVars, wgVars, avVars>>

\* m.mu.Lock(), first half: the goroutine becomes the one writer, and from
\* now on no new read lock is given.
Lock(t) ==
    /\ mpc[t] = "lock"
    /\ rwWriter = 0
    /\ rwWriter' = t
    /\ mpc' = [mpc EXCEPT ![t] = "lockwait"]
    /\ UNCHANGED <<m, mNil, rwReaders, mop, mkey, mval, mactual, mloaded,
                   mDone, onlyLOS, losFalse, rangeVars, semVars, wgVars, avVars>>

\* A Lock that does not wait for the read locks to be released.
LockWaitNoWait(t) ==
    /\ mpc[t] = "lockwait"
    /\ mpc' = [mpc EXCEPT ![t] = "cs"]
    /\ UNCHANGED <<m, mNil, rwReaders, rwWriter, mop, mkey, mval, mactual, mloaded,
                   mDone, onlyLOS, losFalse, rangeVars, semVars, wgVars, avVars>>

\* A Lock that the holder of the only read lock can take on top of it.
LockWaitUpgrade(t) ==
    /\ mpc[t] = "lockwait"
    /\ rwReaders = 0 \/ (rwReaders = 1 /\ mcb[t])
    /\ mpc' = [mpc EXCEPT ![t] = "cs"]
    /\ UNCHANGED <<m, mNil, rwReaders, rwWriter, mop, mkey, mval, mactual, mloaded,
                   mDone, onlyLOS, losFalse, rangeVars, semVars, wgVars, avVars>>

\* m.mu.Lock(), second half: it returns once the read locks are released.
LockWait(t) ==
    /\ mpc[t] = "lockwait"
    /\ rwReaders = 0
    /\ mpc' = [mpc EXCEPT ![t] = "cs"]
    /\ UNCHANGED <<m, mNil, rwReaders, rwWriter, mop, mkey, mval, mactual, mloaded,
                   mDone, onlyLOS, losFalse, rangeVars, semVars, wgVars, avVars>>

\* Store: mak.Set(&m.m, key, value)
StoreBody(t) ==
    /\ mop[t] = "Store" /\ mpc[t] = "cs"
    /\ m' = Put(m, mkey[t], mval[t])
    /\ mNil' = FALSE
    /\ mpc' = [mpc EXCEPT ![t] = "unlock"]
    /\ UNCHANGED <<rwReaders, rwWriter, mop, mkey, mval, mactual, mloaded,
                   mDone, onlyLOS, losFalse, rangeVars, semVars, wgVars, avVars>>

\* LoadOrStore: actual, loaded = m.m[key], under the write lock.
LosLoadedStale(t) == mloaded[t]
LosLoadedNever(t) == FALSE
LosLoaded(t) == Lookup(m, mkey[t]).ok

\* LoadOrStore: actual, loaded = m.m[key];
\* if !loaded { actual = value; mak.Set(&m.m, key, value) }
LoadOrStoreBody(t) ==
    /\ mop[t] = "LoadOrStore" /\ mpc[t] = "cs"
    /\ mloaded' = [mloaded EXCEPT ![t] = LosLoaded(t)]
    /\ IF LosLoaded(t)
       THEN /\ mactual' = [mactual EXCEPT ![t] = Lookup(m, mkey[t]).value]
            /\ UNCHANGED <<m, mNil>>
       ELSE /\ mactual' = [mactual EXCEPT ![t] = mval[t]]
            /\ m' = Put(m, mkey[t], mval[t])
            /\ mNil' = FALSE
    /\ mpc' = [mpc EXCEPT ![t] = "unlock"]
    /\ UNCHANGED <<rwReaders, rwWriter, mop, mkey, mval,
                   mDone, onlyLOS, losFalse, rangeVars, semVars, wgVars, avVars>>

\* A LoadAndDelete that leaves the entry in place.
LoadAndDeleteKeeps(t) ==
    /\ mop[t] = "LoadAndDelete" /\ mpc[t] = "cs"
    /\ mactual' = [mactual EXCEPT ![t] = Lookup(m, mkey[t]).value]
    /\ mloaded' = [mloaded EXCEPT ![t] = Lookup(m, mkey[t]).ok]
    /\ mpc' = [mpc EXCEPT ![t] = "unlock"]
    /\ UNCHANGED <<m, mNil, rwReaders, rwWriter, mop, mkey, mval,
                   mDone, onlyLOS, losFalse, rangeVars, semVars, wgVars, avVars>>

\* LoadAndDelete: value, loaded = m.m[key]; if loaded { delete(m.m, key) }
LoadAndDeleteBody(t) ==
    /\ mop[t] = "LoadAndDelete" /\ mpc[t] = "cs"
    /\ mactual' = [mactual EXCEPT ![t] = Lookup(m, mkey[t]).value]
    /\ mloaded' = [mloaded EXCEPT ![t] = Lookup(m, mkey[t]).ok]
    /\ m' = IF Lookup(m, mkey[t]).ok THEN Remove(m, mkey[t]) ELSE m
    /\ mpc' = [mpc EXCEPT ![t] = "unlock"]
    /\ UNCHANGED <<mNil, rwReaders, rwWriter, mop, mkey, mval,
                   mDone, onlyLOS, losFalse, rangeVars, semVars, wgVars, avVars>>

\* Delete: delete(m.m, key)
DeleteBody(t) ==
    /\ mop[t] = "Delete" /\ mpc[t] = "cs"
    /\ m' = Remove(m, mkey[t])
    /\ mpc' = [mpc EXCEPT ![t] = "unlock"]
    /\ UNCHANGED <<mNil, rwReaders, rwWriter, mop, mkey, mval, mactual, mloaded,
                   mDone, onlyLOS, losFalse, rangeVars, semVars, wgVars, avVars>>

\* The deferred m.mu.Unlock() and the return.
Unlock(t) ==
    /\ mpc[t] = "unlock"
    /\ rwWriter' = 0
    /\ mDone' = m
    /\ MapReturn(t)
    /\ UNCHANGED <<m, mNil, rwReaders, onlyLOS, semVars, wgVars, avVars>>

\* The callers: a goroutine calls Range(f).
CallRange(t) ==
    /\ mpc[t] = "idle"
    /\ mop' = [mop EXCEPT ![t] = "Range"]
    /\ mpc' = [mpc EXCEPT ![t] = "rrlock"]
    /\ UNCHANGED <<m, mNil, rwReaders, rwWriter, mkey, mval, mactual, mloaded,
                   mDone, onlyLOS, losFalse, rangeVars, semVars, wgVars, avVars>>

\* Range: m.mu.RLock()
RangeRLock(t) ==
    /\ mop[t] = "Range" /\ mpc[t] = "rrlock"
    /\ CanRLock
    /\ rwReaders' = rwReaders + 1
    /\ msnap' = [msnap EXCEPT ![t] = m]
    /\ mpc' = [mpc EXCEPT ![t] = "range"]
    /\ UNCHANGED <<m, mNil, rwWriter, mop, mkey, mval, mactual, mloaded,
                   mDone, onlyLOS, losFalse, mvisited, mstop, mcb,
                   semVars, wgVars, avVars>>

\* The entries the for-range statement has still to produce.
RangeLeft(t) == DOMAIN m \ DOMAIN mvisited[t]

\* Range: for k, v := range m.m: the loop ends when no entry is left, else
\* it takes one of the entries left, in no particular order, and calls f(k, v).
RangeLoop(t) ==
    /\ mop[t] = "Range" /\ mpc[t] = "range"
    /\ IF RangeLeft(t) = {}
       THEN /\ mpc' = [mpc EXCEPT ![t] = "rrunlock"]
            /\ UNCHANGED mvisited
       ELSE \E k \in RangeLeft(t) :
                /\ mvisited' = [mvisited EXCEPT ![t] = Put(@, k, m[k])]
                /\ mpc' = [mpc EXCEPT ![t] = "f"]
    /\ UNCHANGED <<m, mNil, rwReaders, rwWriter, mop, mkey, mval, mactual, mloaded,
                   mDone, onlyLOS, losFalse, mstop, mcb, msnap,
                   semVars, wgVars, avVars>>

\* A Range that goes on to the next entry when f returns false.
FReturnNoStop(t) ==
    /\ mop[t] = "Range" /\ mpc[t] = "f"
    /\ \E b \in BOOLEAN :
           /\ mstop' = [mstop EXCEPT ![t] = ~b]
           /\ mpc' = [mpc EXCEPT ![t] = "range"]
    /\ UNCHANGED <<m, mNil, rwReaders, rwWriter, mop, mkey, mval, mactual, mloaded,
                   mDone, onlyLOS, losFalse, mvisited, mcb, msnap,
                   semVars, wgVars, avVars>>

\* Range: f returns b; if !f(k, v) { return }
FReturn(t) ==
    /\ mop[t] = "Range" /\ mpc[t] = "f"
    /\ \E b \in BOOLEAN :
           /\ mstop' = [mstop EXCEPT ![t] = ~b]
           /\ mpc' = [mpc EXCEPT ![t] = IF b THEN "range" ELSE "rrunlock"]
    /\ UNCHANGED <<m, mNil, rwReaders, rwWriter, mop, mkey, mval, mactual, mloaded,
                   mDone, onlyLOS, losFalse, mvisited, mcb, msnap,
                   semVars, wgVars, avVars>>

\* Range: f calls a method that writes, on the same Map, from inside Range.
FCall(t, op, k, v) ==
    /\ mop[t] = "Range" /\ mpc[t] = "f"
    /\ mcb' = [mcb EXCEPT ![t] = TRUE]
    /\ mop' = [mop EXCEPT ![t] = op]
    /\ mpc' = [mpc EXCEPT ![t] = IF op = "LoadOrStore" THEN "rlock" ELSE "lock"]
    /\ mkey' = [mkey EXCEPT ![t] = k]
    /\ mval' = [mval EXCEPT ![t] = v]
    /\ onlyLOS' = [onlyLOS EXCEPT ![k] = @ /\ op \in {"Load", "LoadOrStore"}]
    /\ losFalse' = [losFalse EXCEPT ![k] = IF onlyLOS'[k] THEN @ ELSE 0]
    /\ UNCHANGED <<m, mNil, rwReaders, rwWriter, mactual, mloaded, mDone,
                   mvisited, mstop, msnap, semVars, wgVars, avVars>>

\* Range: the deferred m.mu.RUnlock() and the return.
RangeReturn(t) ==
    /\ mop[t] = "Range" /\ mpc[t] = "rrunlock"
    /\ rwReaders' = rwReaders - 1
    /\ MapReturn(t)
    /\ UNCHANGED <<m, mNil, rwWriter, mDone, onlyLOS, semVars, wgVars, avVars>>

\* The steps a goroutine takes by itself once inside a method.
MapStep(t) ==
    \/ RLock(t)
    \/ LoadRead(t)
    \/ LoadReturn(t)
    \/ Lock(t)
    \/ LockWait(t)
    \/ StoreBody(t)
    \/ LoadOrStoreBody(t)
    \/ LoadAndDeleteBody(t)
    \/ DeleteBody(t)
    \/ Unlock(t)
    \/ RangeRLock(t)
    \/ RangeLoop(t)
    \/ FReturn(t)
    \/ RangeReturn(t)

MapCall(t) ==
    \/ \E k \in Keys : CallLoad(t, k)
    \/ \E k \in Keys, v \in Values : CallStore(t, k, v)
    \/ \E k \in Keys, v \in Values : CallLoadOrStore(t, k, v)
    \/ \E k \in Keys : CallLoadAndDelete(t, k)
    \/ \E k \in Keys : CallDelete(t, k)
    \/ CallRange(t)

MapNext ==
    \/ \E t \in MapThreads : MapCall(t)
    \/ \E t \in MapThreads : MapStep(t)

\* The calls a callback f makes when it writes to the Map it is ranging over.
MapCallback(t) ==
    \/ \E k \in Keys, v \in Values : FCall(t, "Store", k, v)
    \/ \E k \in Keys, v \in Values : FCall(t, "LoadOrStore", k, v)
    \/ \E k \in Keys : FCall(t, "LoadAndDelete", k, 0)
    \/ \E k \in Keys : FCall(t, "Delete", k, 0)

MapReentrantNext ==
    \/ MapNext
    \/ \E t \in MapThreads : MapCallback(t)

----------------------------------------------------------------------------
(* AtomicValue *)

\* var v AtomicValue[T]: v.v holds nothing; no goroutine is in a method.
ZeroAtomicValue ==
    /\ avSet = FALSE
    /\ avVal = 0
    /\ aop = [t \in AvThreads |-> "none"]
    /\ apc = [t \in AvThreads |-> "idle"]
    /\ aold = [t \in AvThreads |-> 0]
    /\ anew = [t \in AvThreads |-> 0]
    /\ aret = [t \in AvThreads |-> 0]
    /\ aok = [t \in AvThreads |-> FALSE]
    /\ avLast = -1
    /\ avTaken = FALSE
    /\ casOld = -1
    /\ casWins = 0

\* A LoadOk without the x != nil test.
LoadOkAlwaysOk == [x |-> avVal, ok |-> TRUE]

\* LoadOk's results in this state: x := v.v.Load(); x != nil gives
\* (x.(T), true), else (zero, false).
LoadOkResult ==
    IF avSet THEN [x |-> avVal, ok |-> TRUE] ELSE [x |-> 0, ok |-> FALSE]

\* Swap's result given the oldV that v.v.Swap returned: oldV.(T), or the
\* zero `old` when oldV is nil.
SwapOld == IF avSet THEN avVal ELSE 0

\* v.v.CompareAndSwap(oldV, newV) on atomic.Value: oldV, a T in an interface,
\* is never nil, so on a v.v that holds nothing it compares unequal;
\* otherwise the held value is compared with oldV.
ValueCompareAndSwap(old) == avSet /\ avVal = old

\* t calls a method with its arguments.
EnterAv(t, op, old, new) ==
    /\ apc[t] = "idle"
    /\ aop' = [aop EXCEPT ![t] = op]
    /\ apc' = [apc EXCEPT ![t] = "call"]
    /\ aold' = [aold EXCEPT ![t] = old]
    /\ anew' = [anew EXCEPT ![t] = new]
    /\ UNCHANGED <<avSet, avVal, aret, aok, avLast, avTaken, casOld, casWins,
                   semVars, wgVars, mapVars>>

AvCallLoad(t) == EnterAv(t, "Load", 0, 0)

AvCallLoadOk(t) == EnterAv(t, "LoadOk", 0, 0)

AvCallStore(t) == \E x \in Values : EnterAv(t, "Store", 0, x)

AvCallSwap(t) == \E x \in Values : EnterAv(t, "Swap", 0, x)

AvCallCompareAndSwap(t) ==
    \E old \in Values, new \in Values : EnterAv(t, "CompareAndSwap", old, new)

\* The atomic operation of t's call is done; its arguments are dropped.
AvDone(t) ==
    /\ apc' = [apc EXCEPT ![t] = "ret"]
    /\ aold' = [aold EXCEPT ![t] = 0]
    /\ anew' = [anew EXCEPT ![t] = 0]
    /\ UNCHANGED <<aop, semVars, wgVars, mapVars>>

\* Load: x, _ := v.LoadOk(); return x
Load(t) ==
    /\ aop[t] = "Load" /\ apc[t] = "call"
    /\ aret' = [aret EXCEPT ![t] = LoadOkResult.x]
    /\ AvDone(t)
    /\ UNCHANGED <<avSet, avVal, aok, avLast, avTaken, casOld, casWins>>

\* LoadOk
LoadOk(t) ==
    /\ aop[t] = "LoadOk" /\ apc[t] = "call"
    /\ aret' = [aret EXCEPT ![t] = LoadOkResult.x]
    /\ aok' = [aok EXCEPT ![t] = LoadOkResult.ok]
    /\ AvDone(t)
    /\ UNCHANGED <<avSet, avVal, avLast, avTaken, casOld, casWins>>

\* Store: v.v.Store(x)
Store(t) ==
    /\ aop[t] = "Store" /\ apc[t] = "call"
    /\ avSet' = TRUE
    /\ avVal' = anew[t]
    /\ avLast' = anew[t]
    /\ avTaken' = FALSE
    /\ casOld' = -1
    /\ casWins' = 0
    /\ AvDone(t)
    /\ UNCHANGED <<aret, aok>>

\* A Swap that loads the old value and stores the new one in two operations.
SwapInTwo(t) ==
    /\ aop[t] = "Swap"
    /\ \/ /\ apc[t] = "call"
          /\ aret' = [aret EXCEPT ![t] = SwapOld]
          /\ apc' = [apc EXCEPT ![t] = "loaded"]
          /\ avTaken' = TRUE
          /\ UNCHANGED <<avSet, avVal, avLast, casOld, casWins, aold, anew>>
       \/ /\ apc[t] = "loaded"
          /\ avSet' = TRUE
          /\ avVal' = anew[t]
          /\ avLast' = anew[t]
          /\ avTaken' = FALSE
          /\ casOld' = -1
          /\ casWins' = 0
          /\ apc' = [apc EXCEPT ![t] = "ret"]
          /\ aold' = [aold EXCEPT ![t] = 0]
          /\ anew' = [anew EXCEPT ![t] = 0]
          /\ UNCHANGED aret
    /\ UNCHANGED <<aop, aok, semVars, wgVars, mapVars>>

\* Swap: oldV := v.v.Swap(x), one atomic exchange.
Swap(t) ==
    /\ aop[t] = "Swap" /\ apc[t] = "call"
    /\ aret' = [aret EXCEPT ![t] = SwapOld]
    /\ avSet' = TRUE
    /\ avVal' = anew[t]
    /\ avLast' = anew[t]
    /\ avTaken' = FALSE
    /\ casOld' = -1
    /\ casWins' = 0
    /\ AvDone(t)
    /\ UNCHANGED aok

\* The history of the CompareAndSwap calls after one with (old, new) that
\* returned swapped.
CasHistory(old, new, swapped) ==
    LET won == IF swapped THEN 1 ELSE 0 IN
    IF casOld = -1
    THEN IF new # old /\ LoadOkResult.x = old
         THEN /\ casOld' = old
              /\ casWins' = won
         ELSE /\ casOld' = -2
              /\ casWins' = 0
    ELSE IF casOld = old /\ new # old
    THEN /\ casOld' = casOld
         /\ casWins' = IF casWins + won > 2 THEN 2 ELSE casWins + won
    ELSE /\ casOld' = -2
         /\ casWins' = 0

\* CompareAndSwap: return v.v.CompareAndSwap(oldV, newV)
CompareAndSwap(t) ==
    /\ aop[t] = "CompareAndSwap" /\ apc[t] = "call"
    /\ LET swapped == ValueCompareAndSwap(aold[t]) IN
           /\ aok' = [aok EXCEPT ![t] = swapped]
           /\ CasHistory(aold[t], anew[t], swapped)
           /\ IF swapped
              THEN /\ avSet' = TRUE
                   /\ avVal' = anew[t]
                   /\ avLast' = anew[t]
                   /\ avTaken' = FALSE
              ELSE UNCHANGED <<avSet, avVal, avLast, avTaken>>
    /\ AvDone(t)
    /\ UNCHANGED aret

\* t's method returns to its caller.
AvReturn(t) ==
    /\ apc[t] = "ret"
    /\ apc' = [apc EXCEPT ![t] = "idle"]
    /\ aop' = [aop EXCEPT ![t] = "none"]
    /\ aret' = [aret EXCEPT ![t] = 0]
    /\ aok' = [aok EXCEPT ![t] = FALSE]
    /\ UNCHANGED <<avSet, avVal, aold, anew, avLast, avTaken, casOld, casWins,
                   semVars, wgVars, mapVars>>

AvStep(t) ==
    \/ Load(t)
    \/ LoadOk(t)
    \/ Store(t)
    \/ Swap(t)
    \/ CompareAndSwap(t)
    \/ AvReturn(t)

AvCall(t) ==
    \/ AvCallLoad(t)
    \/ AvCallLoadOk(t)
    \/ AvCallStore(t)
    \/ AvCallSwap(t)
    \/ AvCallCompareAndSwap(t)

AvNext == \E t \in AvThreads : AvCall(t) \/ AvStep(t)

----------------------------------------------------------------------------
(* Specifications *)

\* A semaphore of any capacity in use; the other values unused.
SemInit ==
    /\ \E n \in 0..MaxCap : NewSemaphore(n)
    /\ NewWaitGroupChan /\ ZeroMap /\ ZeroAtomicValue

SpecSem == SemInit /\ [][SemNext]_vars

\* The scheduler runs every goroutine that can take a step.
FairSpecSem == SpecSem /\ \A t \in Threads : WF_vars(SemStep(t))

\* A WaitGroupChan in use by any callers.
WgInit == NewSemaphore(0) /\ NewWaitGroupChan /\ ZeroMap /\ ZeroAtomicValue

SpecWg == WgInit /\ [][WgNext]_vars

\* A WaitGroupChan used as documented, under a scheduler that runs every
\* goroutine that can take a step.
SpecWgUse == WgInit /\ [][WgUseNext]_vars

FairSpecWgUse == SpecWgUse /\ \A t \in Threads : WF_vars(WgStep(t))

\* A Map in use by any callers.
MapInit == NewSemaphore(0) /\ NewWaitGroupChan /\ ZeroMap /\ ZeroAtomicValue

SpecMap == MapInit /\ [][MapNext]_vars

\* The scheduler runs every goroutine that can take a step, and a goroutine
\* waiting in RLock gets the lock when a writer releases it (sync.RWMutex
\* lets the readers that wait in before the next writer).
FairSpecMap ==
    /\ SpecMap
    /\ \A t \in MapThreads : WF_vars(MapStep(t)) /\ SF_vars(RangeRLock(t))

\* A Map in use by any callers, whose Range callbacks may write to it.
SpecMapReentrant == MapInit /\ [][MapReentrantNext]_vars

\* An AtomicValue in use by any callers.
AvInit == NewSemaphore(0) /\ NewWaitGroupChan /\ ZeroMap /\ ZeroAtomicValue

SpecAv == AvInit /\ [][AvNext]_vars

----------------------------------------------------------------------------
(* Claims about WaitGroupChan *)

\* C2: the counter never holds a negative value (an Add whose result would
\* be negative panics instead).
CounterNeverNegative == wgN >= 0

\* C3: closing wg.done again, after an Add whose result is zero on a value
\* whose signal has fired, is a no-op: it never panics.
SecondFiringIsNoOp == wgPanic # "close of closed channel"

WgSignalIffZero ==
    /\ [](wgClosed => wgZero)
    /\ []((wgZero /\ ~wgClosed) => \E t \in Threads : wpc[t] = "check" /\ wn[t] = 0)
    /\ [](wch # "nil" => (ChanReady(wch) <=> wgClosed))
    /\ [][wgClosed => wgClosed']_vars
    /\ [][\A t \in Threads :
             (wop[t] = "Wait" /\ wpc[t] = "call" /\ wpc'[t] # "call" /\ wgClosed)
                 => wpc'[t] = "ret"]_vars

\* C5 witness: the signal has fired, the counter has since moved off zero,
\* and a Wait made afterwards is returning.
WgFiredStaysFired ==
    /\ wgClosed /\ wgZero /\ wgN > 0 /\ wgPanic = "none"
    /\ \E t \in Threads : wop[t] = "Wait" /\ wpc[t] = "ret"

----------------------------------------------------------------------------
(* Claims about Map *)

\* In this step t's LoadOrStore returns (from its first check or after the
\* write lock).
LosReturns(t) ==
    /\ mop[t] = "LoadOrStore"
    /\ mpc[t] \in {"runlock", "unlock"}
    /\ mpc'[t] = "idle"

\* C6: while only LoadOrStore (and Load) calls touch a key, at most one of
\* them returns loaded == false and, once any has returned, exactly one has;
\* every call returns the value the map holds for the key, the call that
\* returns false returns its own argument, and that entry never changes: so
\* racing calls return the same actual, one of their arguments.
LosRaceOneWinner ==
    /\ [](\A k \in Keys : onlyLOS[k] => losFalse[k] <= 1)
    /\ [][\A t \in MapThreads :
             (LosReturns(t) /\ onlyLOS[mkey[t]]) =>
                 /\ mkey[t] \in DOMAIN m
                 /\ m[mkey[t]] = mactual[t]
                 /\ ~mloaded[t] => (mactual[t] = mval[t] /\ losFalse'[mkey[t]] = 1)
                 /\ mloaded[t] => losFalse[mkey[t]] = 1]_vars
    /\ [][\A k \in Keys :
             (onlyLOS'[k] /\ k \in DOMAIN m) => (k \in DOMAIN m' /\ m'[k] = m[k])]_vars

\* C6 witness: a LoadOrStore that found the key absent at its first check
\* finds, under the write lock, the other call's value stored.
LosRaceLost ==
    \E t \in MapThreads :
        /\ mop[t] = "LoadOrStore" /\ mpc[t] = "unlock"
        /\ mloaded[t] /\ mactual[t] # mval[t]
        /\ onlyLOS[mkey[t]] /\ losFalse[mkey[t]] = 1

\* LoadOrStore as one atomic step on entries mp.
AtomicLoadOrStore(mp, k, v) ==
    IF k \in DOMAIN mp
    THEN [actual |-> mp[k], loaded |-> TRUE, entries |-> mp]
    ELSE [actual |-> v, loaded |-> FALSE, entries |-> Put(mp, k, v)]

\* C7: every LoadOrStore call acts as the atomic step at one instant of the
\* call, whatever Store, Delete, LoadAndDelete and LoadOrStore calls run
\* beside it: a call that returns from its first check returns what the atomic
\* step gives on the entries of that instant and changes nothing; otherwise
\* the step under the write lock is the atomic step, its result is what the
\* call returns, its effect is still in place at the return, and no other
\* step of the call changes the entries.
LoadOrStoreAtomic ==
    [][\A t \in MapThreads :
          mop[t] = "LoadOrStore" =>
              LET a == AtomicLoadOrStore(m, mkey[t], mval[t]) IN
              /\ (mpc[t] = "runlock" /\ mpc'[t] = "idle") =>
                     /\ a.loaded /\ mloaded[t]
                     /\ a.actual = mactual[t]
                     /\ m' = a.entries
              /\ (mpc[t] = "cs" /\ mpc'[t] = "unlock") =>
                     /\ m' = a.entries
                     /\ mactual'[t] = a.actual
                     /\ mloaded'[t] = a.loaded
              /\ (mpc[t] = "unlock" /\ mpc'[t] = "idle") =>
                     /\ m' = m
                     /\ Lookup(m, mkey[t]) = [value |-> mactual[t], ok |-> TRUE]
              /\ (mpc[t] # "cs" /\ mpc'[t] # mpc[t]) => m' = m]_vars

\* C7 witness: a LoadOrStore that found the key absent at its first check
\* finds it present under the write lock, stored meanwhile by a Store, while
\* a Delete or LoadAndDelete of the key waits for the lock.
LosRacedWithWriters ==
    \E t, u \in MapThreads :
        /\ mop[t] = "LoadOrStore" /\ mpc[t] = "unlock" /\ mloaded[t]
        /\ ~onlyLOS[mkey[t]] /\ losFalse[mkey[t]] = 0
        /\ mop[u] \in {"Delete", "LoadAndDelete"} /\ mpc[u] = "lock"
        /\ mkey[u] = mkey[t]

\* The goroutines that hold the write lock, and those that hold a read lock.
Writing == {t \in MapThreads : mpc[t] \in {"cs", "unlock"}}
Reading == {t \in MapThreads : mpc[t] \in {"read", "runlock", "range", "f", "rrunlock"}}

\* C8: no reader holds the lock while a writer does, at most one writer
\* does, and a Load reads, and returns, the key's entry as it was when the
\* write lock was last released: the effect of the latest completed write.
ReadsNotStale ==
    /\ [](Writing # {} => (Reading = {} /\ rwReaders = 0))
    /\ [](Cardinality(Writing) <= 1)
    /\ [][\A t \in MapThreads :
             /\ (mpc[t] = "read" /\ mpc'[t] = "runlock") =>
                    [value |-> mactual'[t], ok |-> mloaded'[t]] = Lookup(mDone, mkey[t])
             /\ (mop[t] = "Load" /\ mpc[t] = "runlock" /\ mpc'[t] = "idle") =>
                    [value |-> mactual[t], ok |-> mloaded[t]] = Lookup(mDone, mkey[t])]_vars

\* C8 witness: a Load has read the value 1 a Store left, and holds its read
\* lock while the next writer waits for it.
LoadSawCompletedStore ==
    \E t, u \in MapThreads :
        /\ mop[t] = "Load" /\ mpc[t] = "runlock"
        /\ mloaded[t] /\ mactual[t] = 1
        /\ mpc[u] = "lockwait"

\* In this step t's LoadAndDelete runs its body under the write lock.
LoadAndDeleteRuns(t) ==
    /\ mop[t] = "LoadAndDelete"
    /\ mpc[t] = "cs"
    /\ mpc'[t] = "unlock"

\* In this step some method inserts key k.
Inserts(k) ==
    \E u \in MapThreads :
        /\ mop[u] \in {"Store", "LoadOrStore"}
        /\ mkey[u] = k
        /\ mpc[u] = "cs" /\ mpc'[u] = "unlock"

\* C17: LoadAndDelete(k) gets and removes in one step under the write lock:
\* on a present key it returns (the stored value, true) and leaves the key
\* absent, on an absent key it returns (zero, false) and changes nothing; no
\* other step of the call changes the entries; an absent key becomes present
\* only in the step of an insert, and a Load reads the entry of the instant
\* it reads, so that a Load after the removal with no insert in between
\* returns (zero, false); hence of the LoadAndDelete calls racing on one
\* present entry with no insert the first to run returns true and leaves
\* every later one to return false.
LoadAndDeleteAtomic ==
    /\ [][\A t \in MapThreads :
             /\ LoadAndDeleteRuns(t) =>
                    /\ [value |-> mactual'[t], ok |-> mloaded'[t]] = Lookup(m, mkey[t])
                    /\ mkey[t] \notin DOMAIN m'
                    /\ \A k \in Keys \ {mkey[t]} : Lookup(m', k) = Lookup(m, k)
             /\ (mop[t] = "LoadAndDelete" /\ ~LoadAndDeleteRuns(t) /\ mpc'[t] # mpc[t]) =>
                    m' = m
             /\ (mop[t] = "LoadAndDelete" /\ mpc[t] = "unlock" /\ mpc'[t] = "idle") =>
                    /\ mkey[t] \notin DOMAIN m
                    /\ ~mloaded[t] => mactual[t] = 0
             /\ (mop[t] = "Load" /\ mpc[t] = "read" /\ mpc'[t] = "runlock") =>
                    [value |-> mactual'[t], ok |-> mloaded'[t]] = Lookup(m, mkey[t])]_vars
    /\ [][\A k \in Keys :
             (k \notin DOMAIN m /\ k \in DOMAIN m') => Inserts(k)]_vars
    /\ [](Cardinality(Writing) <= 1)

\* C17 witness: of two LoadAndDelete calls racing on a key that held 1, one
\* has removed it and returns (1, true) while the other waits for the lock.
LoadAndDeleteRaceWon ==
    \E t, u \in MapThreads :
        /\ t # u
        /\ mop[t] = "LoadAndDelete" /\ mpc[t] = "unlock"
        /\ mloaded[t] /\ mactual[t] = 1
        /\ mop[u] = "LoadAndDelete" /\ mpc[u] = "lock" /\ mkey[u] = mkey[t]
        /\ mkey[t] \notin DOMAIN m

\* The goroutines in Range that hold its read lock.
Ranging == {t \in MapThreads : mop[t] = "Range" /\ mpc[t] \in {"range", "f", "rrunlock"}}

\* In this step t's Range returns.
RangeReturns(t) ==
    /\ mop[t] = "Range"
    /\ mpc[t] = "rrunlock"
    /\ mpc'[t] = "idle"

\* C18: Range passes entries of the map to f, each at most once, and makes
\* no call of f after one that returned false, so that an f that returns
\* false on its first call is given exactly one entry; a Range no f of which
\* returned false has passed every entry exactly once when it returns, none
\* on a map with no entries; its return releases the read lock; and under
\* fair scheduling every Range call returns.
RangeVisitsOnceUntilFalse ==
    /\ [][\A t \in MapThreads :
             /\ (mop[t] = "Range" /\ mpc[t] = "range" /\ mpc'[t] = "f") =>
                    \E k \in DOMAIN m \ DOMAIN mvisited[t] :
                        mvisited'[t] = Put(mvisited[t], k, m[k])
             /\ (mop[t] = "Range" /\ mpc[t] = "f" /\ mpc'[t] # "f") =>
                    /\ mstop'[t] <=> mpc'[t] = "rrunlock"
                    /\ ~mstop'[t] <=> mpc'[t] = "range"
                    /\ mvisited'[t] = mvisited[t]
             /\ (mop[t] = "Range" /\ mpc[t] = "rrunlock" /\ ~RangeReturns(t)) =>
                    (mpc'[t] = "rrunlock" /\ mvisited'[t] = mvisited[t])
             /\ RangeReturns(t) =>
                    /\ ~mstop[t] => mvisited[t] = m
                    /\ m = NoEntries => (mvisited[t] = NoEntries /\ ~mstop[t])
                    /\ rwReaders' = rwReaders - 1]_vars
    /\ [](\A t \in MapThreads :
             /\ (mop[t] = "Range" /\ mstop[t]) => mpc[t] = "rrunlock"
             /\ rwReaders = Cardinality(Reading))
    /\ \A t \in MapThreads : (mop[t] = "Range") ~> (mpc[t] = "idle")

\* C18 witness: on a map of two entries f returned false on its first call
\* and Range is at its return with that one entry visited.
RangeStoppedAfterFirst ==
    \E t \in MapThreads :
        /\ mop[t] = "Range" /\ mpc[t] = "rrunlock" /\ mstop[t]
        /\ Cardinality(DOMAIN mvisited[t]) = 1
        /\ Cardinality(DOMAIN m) = 2

\* C19: from the step in which Range gets the read lock to its return the
\* read lock is held, no goroutine holds the write lock and no step changes
\* the entries; so the entries are those of the moment the lock was got, and
\* every entry passed to f is one of them.
RangeSeesSnapshot ==
    /\ [][Ranging # {} => m' = m]_vars
    /\ [](\A t \in Ranging :
             /\ rwReaders >= 1
             /\ Writing = {}
             /\ msnap[t] = m
             /\ \A k \in DOMAIN mvisited[t] :
                    Lookup(msnap[t], k) = [value |-> mvisited[t][k], ok |-> TRUE])

\* C19 witness: f is running on an entry while another goroutine's write has
\* announced itself and waits for the read lock to be released.
WriterWaitsForRange ==
    \E t, u \in MapThreads :
        /\ mop[t] = "Range" /\ mpc[t] = "f"
        /\ mop[u] \in {"Store", "Delete", "LoadAndDelete", "LoadOrStore"}
        /\ mpc[u] = "lockwait"

\* The callbacks that have called a writing method and are at its m.mu.Lock().
CallbackAtLock == {t \in MapThreads : mcb[t] /\ mpc[t] \in {"lock", "lockwait"}}

\* C20: a method called from f that comes to m.mu.Lock() never gets the
\* write lock: it stays at Lock in every step from then on, so that neither
\* it nor f nor Range returns, and the read lock of its Range stays held.
RangeCallbackWriteDeadlocks ==
    /\ [](\A t \in MapThreads : mcb[t] => mpc[t] \notin {"cs", "unlock"})
    /\ [](CallbackAtLock # {} => rwReaders >= 1)
    /\ [][\A t \in CallbackAtLock :
             /\ mcb'[t]
             /\ mpc'[t] \in {"lock", "lockwait"}
             /\ mop'[t] = mop[t]]_vars

\* C20 witness: a Store called from f has announced itself as the writer and
\* waits for the read locks, one of which its own Range holds.
CallbackStoreWaits ==
    \E t \in MapThreads :
        /\ mcb[t] /\ mop[t] = "Store" /\ mpc[t] = "lockwait"
        /\ rwReaders = 1

----------------------------------------------------------------------------
(* Claims about Semaphore *)

\* In this step an acquisition by t succeeds (its send on s.c completes).
AcquiredInStep(t) ==
    /\ sop[t] \in {"Acquire", "AcquireContext", "TryAcquire"}
    /\ spc[t] \in {"call", "parked"}
    /\ spc'[t] = "ret"
    /\ sres'[t] # "false"

\* In this step the receive of r's Release completes.
ReleasedInStep(r) ==
    /\ sop[r] = "Release"
    /\ spc[r] \in {"call", "parked"}
    /\ spc'[r] = "ret"

NumReleasedInStep == Cardinality({r \in Threads : ReleasedInStep(r)})

\* C1: the occupied count len(s.c) is in [0, N] in every reachable state, and
\* no acquisition succeeds while N slots are occupied: an acquisition that
\* succeeds from a state with N tokens is one a Release completing in the
\* same step has made room for.
SemOccupancyBounded ==
    /\ [](semLen \in 0..semCap)
    /\ [][\A t \in Threads :
             AcquiredInStep(t) =>
                 (semLen < semCap \/ \E r \in Threads : ReleasedInStep(r))]_vars

\* C1 witness: a full semaphore of capacity 2 has refused a TryAcquire while
\* an Acquire is blocked on it.
SemFullRefuses ==
    /\ semCap = 2 /\ semLen = semCap
    /\ \E t, u \in Threads :
           /\ sop[t] = "TryAcquire" /\ spc[t] = "ret" /\ sres[t] = "false"
           /\ sop[u] = "Acquire" /\ spc[u] = "parked"

\* In this step t's AcquireContext settles what it returns.
AcqCtxResolves(t) ==
    /\ sop[t] = "AcquireContext"
    /\ spc[t] \in {"call", "parked"}
    /\ spc'[t] = "ret"

\* C9: AcquireContext returns true iff it claimed a slot: its token entered
\* the channel, so the occupancy rose by one on its behalf (less one for a
\* Release whose receive took a token in the same step); it returns false only
\* with ctx.Done() ready, the occupancy unchanged and no token sent; with ctx
\* already cancelled and the semaphore full it returns false.
AcquireContextResult ==
    [][\A t \in Threads :
          AcqCtxResolves(t) =>
              /\ sres'[t] \in {"true", "false"}
              /\ sres'[t] = "true" => semLen' = semLen + 1 - NumReleasedInStep
              /\ sres'[t] = "false" =>
                     /\ sctx[t] # 0 /\ ctxDone'[sctx[t]]
                     /\ semLen' = semLen
                     /\ NumReleasedInStep = 0
              /\ (/\ spc[t] = "call"
                  /\ sctx[t] # 0 /\ ctxDone[sctx[t]]
                  /\ semLen = semCap /\ RecvQ = {}) =>
                     (sres'[t] = "false" /\ semLen' = semLen)]_vars

\* C9 witness: AcquireContext has returned false on a full semaphore.
AcqCtxCancelledOnFull ==
    \E t \in Threads :
        /\ sop[t] = "AcquireContext" /\ spc[t] = "ret" /\ sres[t] = "false"
        /\ semCap > 0 /\ semLen = semCap
        /\ SendQ = {}

\* C10: once its ctx.Done() is ready a goroutine inside AcquireContext
\* returns, whatever the occupancy; a goroutine blocked in Acquire leaves the
\* block only by a Release, and an Acquire on a full semaphore blocks.
AcqCtxReturnsOnceCancelled ==
    /\ \A t \in Threads :
           (sop[t] = "AcquireContext" /\ sctx[t] # 0 /\ ctxDone[sctx[t]])
               ~> (spc[t] = "idle")
    /\ [][\A t \in Threads :
             /\ (sop[t] = "Acquire" /\ spc[t] = "parked" /\ spc'[t] # "parked")
                    => \E r \in Threads : ReleasedInStep(r)
             /\ (/\ sop[t] = "Acquire" /\ spc[t] = "call" /\ spc'[t] # "call"
                 /\ semLen = semCap /\ RecvQ = {})
                    => spc'[t] = "parked"]_vars

\* C10 witness: on a full semaphore an AcquireContext was cancelled while an
\* Acquire stays blocked.
CancelledWhileAcquireBlocked ==
    \E t, u \in Threads :
        /\ sop[t] = "AcquireContext" /\ spc[t] = "ret" /\ sres[t] = "false"
        /\ sop[u] = "Acquire" /\ spc[u] = "parked"
        /\ semLen = semCap

\* In this step t's TryAcquire runs its select.
TryAcquireRuns(t) ==
    /\ sop[t] = "TryAcquire"
    /\ spc[t] = "call"
    /\ spc'[t] # "call"

\* C11: TryAcquire never blocks: its select can always run and ends in the
\* return, never in a wait; with no Release waiting on the channel it returns
\* true exactly when len(s.c) < N, taking one slot, and false exactly when
\* len(s.c) = N, leaving the occupancy as it was.
TryAcquireResult ==
    /\ [](\A t \in Threads :
             /\ (sop[t] = "TryAcquire" /\ spc[t] = "call") => ENABLED TryAcquire(t)
             /\ sop[t] = "TryAcquire" => spc[t] # "parked")
    /\ [][\A t \in Threads :
             TryAcquireRuns(t) =>
                 /\ spc'[t] = "ret"
                 /\ sres'[t] \in {"true", "false"}
                 /\ RecvQ = {} =>
                        /\ sres'[t] = "true" <=> semLen < semCap
                        /\ sres'[t] = "true" => semLen' = semLen + 1
                        /\ sres'[t] = "false" => (semLen = semCap /\ semLen' = semLen)]_vars

\* C11 witness: on capacity 2 a TryAcquire has taken the second slot and the
\* next TryAcquire was refused.
TryAcquireSecondThenRefused ==
    /\ semCap = 2 /\ semLen = 2
    /\ \E t, u \in Threads :
           /\ sop[t] = "TryAcquire" /\ spc[t] = "ret" /\ sres[t] = "true"
           /\ sop[u] = "TryAcquire" /\ spc[u] = "ret" /\ sres[u] = "false"

\* In this step r's Release runs its receive.
ReleaseRuns(r) ==
    /\ sop[r] = "Release"
    /\ spc[r] = "call"
    /\ spc'[r] # "call"

\* The blocked acquirers this step lets proceed.
Unblocked == {s \in SendQ : spc'[s] # "parked"}

\* C12: acquirers are blocked only on a full semaphore; a Release made while
\* some are blocked returns, frees one slot and lets exactly one of them
\* proceed with it (the occupancy stays N, that acquirer's call succeeds, the
\* others stay blocked); only a Release or a cancel unblocks an acquirer; and
\* under fair scheduling a Release called while acquirers are blocked leads
\* to a blocked acquirer proceeding, which then returns.
ReleaseUnblocksOne ==
    /\ [](SendQ # {} => semLen = semCap)
    /\ [][\A r \in Threads :
             (ReleaseRuns(r) /\ SendQ # {}) =>
                 /\ spc'[r] = "ret"
                 /\ semLen' = semLen
                 /\ Cardinality(Unblocked) = 1
                 /\ \A s \in Unblocked : spc'[s] = "ret" /\ sres'[s] # "false"]_vars
    /\ [][Unblocked # {} =>
             \/ \E r \in Threads : ReleaseRuns(r)
             \/ \E c \in CancelCtxs : ~ctxDone[c] /\ ctxDone'[c]]_vars
    /\ \A r \in Threads :
           (sop[r] = "Release" /\ spc[r] = "call" /\ SendQ # {})
               ~> (\E s \in Threads :
                       sop[s] \in {"Acquire", "AcquireContext"} /\ spc[s] = "ret")
    /\ \A s \in Threads :
           (sop[s] \in {"Acquire", "AcquireContext"} /\ spc[s] = "ret")
               ~> (spc[s] = "idle")

\* C12 witness: with two acquirers blocked on a full semaphore a Release has
\* returned a slot: one acquirer proceeds, the other is still blocked.
OneOfTwoUnblocked ==
    /\ semCap > 0 /\ semLen = semCap
    /\ \E r, s, u \in Threads :
           /\ sop[r] = "Release" /\ spc[r] = "ret"
           /\ sop[s] = "Acquire" /\ spc[s] = "ret"
           /\ sop[u] \in {"Acquire", "AcquireContext"} /\ spc[u] = "parked"

\* C13: a Release on a semaphore with no slot occupied and no acquirer
\* blocked raises nothing and blocks, the occupancy staying 0; a blocked
\* Release leaves the block only in a step in which another goroutine's
\* acquisition succeeds, and it then returns; an acquisition that succeeds
\* while Releases are blocked unblocks exactly one of them.
OverReleaseBlocks ==
    /\ [](RecvQ # {} => semLen = 0)
    /\ [][\A r \in Threads :
             /\ (ReleaseRuns(r) /\ semLen = 0 /\ SendQ = {}) =>
                    (spc'[r] = "parked" /\ semLen' = semLen /\ sres' = sres)
             /\ (r \in RecvQ /\ spc'[r] # "parked") =>
                    /\ spc'[r] = "ret"
                    /\ \E u \in Threads \ {r} : AcquiredInStep(u)
             /\ (AcquiredInStep(r) /\ RecvQ # {}) =>
                    Cardinality({x \in RecvQ : spc'[x] = "ret"}) = 1]_vars

\* C13 witness: a Release is blocked on a semaphore of capacity > 0 with no
\* slot occupied, while a Release blocked like it has been let go by an
\* acquisition.
OverReleaseWaiting ==
    /\ semCap > 0 /\ semLen = 0
    /\ \E r, x, u \in Threads :
           /\ sop[r] = "Release" /\ spc[r] = "parked"
           /\ sop[x] = "Release" /\ spc[x] = "ret"
           /\ sop[u] = "TryAcquire" /\ spc[u] = "ret" /\ sres[u] = "true"

----------------------------------------------------------------------------
(* Claims about AtomicValue *)

\* In this step t's call of method op does its atomic operation on v.v.
AvRuns(t, op) ==
    /\ aop[t] = op
    /\ apc[t] = "call"
    /\ apc'[t] # "call"

\* C14: CompareAndSwap(old, new) returns true and leaves new stored exactly
\* when the value at that instant (what Load returns: the zero value while
\* nothing is stored) equals old, and else returns false and changes nothing;
\* of the CompareAndSwap(old, x_i) calls, x_i # old, made with no other
\* writer on a value equal to old, exactly one returns true.
CompareAndSwapIffEqual ==
    /\ [][\A t \in AvThreads :
             AvRuns(t, "CompareAndSwap") =>
                 /\ aok'[t] <=> (LoadOkResult.x = aold[t])
                 /\ aok'[t] => (avSet' /\ avVal' = anew[t])
                 /\ ~aok'[t] => (avSet' = avSet /\ avVal' = avVal)]_vars
    /\ [](casOld \in Values => casWins = 1)

\* The part of C14 that holds: once a value has been stored, CompareAndSwap
\* returns true and leaves new stored exactly when the stored value equals
\* old, else returns false and changes nothing; on a value that holds
\* nothing it returns false and changes nothing, whatever old is.
CompareAndSwapOnStored ==
    [][\A t \in AvThreads :
          AvRuns(t, "CompareAndSwap") =>
              /\ aok'[t] <=> (avSet /\ avVal = aold[t])
              /\ aok'[t] => (avSet' /\ avVal' = anew[t])
              /\ ~aok'[t] => (avSet' = avSet /\ avVal' = avVal)]_vars

\* A CompareAndSwap(0, x) has returned false on a value that holds nothing.
CompareAndSwapZeroOnEmpty ==
    /\ ~avSet
    /\ casOld = 0
    /\ \E t \in AvThreads : aop[t] = "CompareAndSwap" /\ apc[t] = "ret" /\ ~aok[t]

\* C15: Load returns the x of the latest Store, Swap or CompareAndSwap that
\* returned true, or the zero value if there was none; LoadOk returns
\* (zero, false) if there was none and (x, true) with that x otherwise; and
\* once LoadOk's flag can be true it stays so.
LoadReturnsLatest ==
    /\ [][\A t \in AvThreads :
             /\ AvRuns(t, "Load") =>
                    aret'[t] = (IF avLast = -1 THEN 0 ELSE avLast)
             /\ AvRuns(t, "LoadOk") =>
                    IF avLast = -1
                    THEN aret'[t] = 0 /\ aok'[t] = FALSE
                    ELSE aret'[t] = avLast /\ aok'[t] = TRUE]_vars
    /\ [][LoadOkResult.ok => LoadOkResult'.ok]_vars

\* C15 witness: a LoadOk has returned (zero, false) and a later one returns
\* (x, true) with x not the zero value.
LoadOkFalseThenTrue ==
    \E t, u \in AvThreads :
        /\ aop[t] = "LoadOk" /\ apc[t] = "ret" /\ aret[t] = 0 /\ ~aok[t]
        /\ aop[u] = "LoadOk" /\ apc[u] = "ret" /\ aret[u] # 0 /\ aok[u]

\* A step that changes what v.v holds.
AvWrites == avSet' # avSet \/ avVal' # avVal

\* C16: Swap(x) in one atomic step returns the value held just before (the
\* zero value if none was held) and leaves x stored; the held value changes
\* only in the step of a Store, a Swap or a CompareAndSwap, so a Load with
\* no writer in between returns x; and the value a Swap returns as its old
\* one has not been returned as old by a Swap before.
SwapReturnsPrevious ==
    /\ [][\A t \in AvThreads :
             /\ AvRuns(t, "Swap") =>
                    /\ aret'[t] = LoadOkResult.x
                    /\ avSet' /\ avVal' = anew[t]
                    /\ ~avTaken
                    /\ apc'[t] = "ret"
             /\ AvRuns(t, "Load") => aret'[t] = LoadOkResult.x]_vars
    /\ [][AvWrites =>
             \E t \in AvThreads :
                 \/ AvRuns(t, "Store")
                 \/ AvRuns(t, "Swap")
                 \/ AvRuns(t, "CompareAndSwap")]_vars
    /\ [](~avTaken)

\* C16 witness: two concurrent Swaps on a value holding 1: one has returned
\* the 1, the other has returned what the first stored, and its own x is held.
SwapsChained ==
    \E t, u \in AvThreads :
        /\ t # u
        /\ aop[t] = "Swap" /\ apc[t] = "ret" /\ aret[t] = 1
        /\ aop[u] = "Swap" /\ apc[u] = "ret" /\ aret[u] = 0
        /\ avSet /\ avVal = 1

====
